---- MODULE Spec2Model ----
(***************************************************************************)
(* Open/close state machines of the lightswind widgets: Drawer, Sheet,     *)
(* Select and ThreeDImageRing.                                             *)
(*                                                                         *)
(* An optional value (a prop that may be undefined, a context that may be  *)
(* missing) is a sequence: << >> is undefined, <<v>> is the value v.       *)
(* A render is part of the event that causes it: every action ends with    *)
(* the committed output of the components it re-renders.                   *)
(***************************************************************************)
EXTENDS Integers, Sequences, FiniteSets, TLC

VARIABLES
  \* ---- shared bookkeeping of the last event
  ev,                 \* the last event: [widget, control]
  calls,              \* onOpenChange calls made by the last handler, in order
  thrown,             \* TRUE iff the last handler or render threw
  rendered,           \* result of the last stand-alone render of a sub-component
  \* ---- Drawer (src/unnamed/part_000)
  dControlledOpen,    \* prop open (optional)
  dDefaultOpen,       \* prop defaultOpen
  dHasOnOpenChange,   \* prop onOpenChange supplied
  dUncontrolledOpen,  \* useState(defaultOpen)
  dLastClick,         \* "none", or the Drawer control clicked last
  dView,              \* committed output of DrawerContent
  \* ---- Sheet (sheet.tsx)
  sControlledOpen,
  sDefaultOpen,
  sHasOnOpenChange,
  sUncontrolledOpen,
  sContentAlive,      \* a SheetContent instance is in the tree
  sMounted,           \* SheetContent's useState(false)
  sPortalView,        \* committed output of SheetPortal
  sContentView,       \* committed output of SheetContent
  \* ---- Select (select.tsx)
  selOpenProp,        \* prop open (optional)
  selDefaultOpen,
  selDisabled,
  selHasOnOpenChange,
  selIsOpen,          \* useState(open || defaultOpen)
  selSearchQuery,
  selEffectsRun,      \* the mount effects have run
  selPrevOpen,        \* isOpen before the last two events (oldest first)
  selPrevEv,          \* the event before the last one
  \* ---- ThreeDImageRing (3d-image-ring.tsx)
  draggable,
  initialRotation,    \* in half degrees
  hoverOpacity,       \* in tenths
  rotationX,          \* in half degrees
  rotationY,          \* in half degrees
  hoveredIndex,       \* optional image index
  over,               \* images with a hover-start not yet followed by their hover-end
  opacity             \* committed animate.opacity of every image, in tenths

sharedVars == <<ev, calls, thrown, rendered>>
drawerVars == <<dControlledOpen, dDefaultOpen, dHasOnOpenChange, dUncontrolledOpen,
                dLastClick, dView>>
sheetVars  == <<sControlledOpen, sDefaultOpen, sHasOnOpenChange, sUncontrolledOpen,
                sContentAlive, sMounted, sPortalView, sContentView>>
selectVars == <<selOpenProp, selDefaultOpen, selDisabled, selHasOnOpenChange,
                selIsOpen, selSearchQuery, selEffectsRun, selPrevOpen, selPrevEv>>
ringVars   == <<draggable, initialRotation, hoverOpacity, rotationX, rotationY,
                hoveredIndex, over, opacity>>
vars == <<sharedVars, drawerVars, sheetVars, selectVars, ringVars>>

OptBool == {<< >>, <<TRUE>>, <<FALSE>>}

Event(w, c) == [widget |-> w, control |-> c]

NoRender == [comp |-> "none", inParent |-> FALSE, out |-> "none"]

(***************************************************************************)
(* Drawer                                                                  *)
(***************************************************************************)

\* The value Drawer hands to DrawerContext.Provider; setOpen is DrawerSetOpen.
DrawerContext(controlledOpen, uncontrolledOpen) ==
  LET isControlled == controlledOpen # << >>
  IN  <<[open |-> IF isControlled THEN controlledOpen[1] ELSE uncontrolledOpen]>>

DrawerOpen == DrawerContext(dControlledOpen, dUncontrolledOpen)[1].open

\* useDrawerContext: throws when there is no provider, else returns the context.
useDrawerContext_NoThrow(context) ==
  [threw |-> FALSE,
   value |-> IF context = << >> THEN <<[open |-> FALSE]>> ELSE context]

useDrawerContext(context) ==
  [threw |-> context = << >>, value |-> context]

DrawerTriggerRender(context) ==
  IF useDrawerContext(context).threw THEN "throw" ELSE "button"

DrawerCloseRender(context) ==
  IF useDrawerContext(context).threw THEN "throw" ELSE "button"

DrawerContentRender_Always(context) ==
  IF useDrawerContext(context).threw THEN "throw" ELSE "portal"

DrawerContentRender(context) ==
  LET c == useDrawerContext(context)
  IN  IF c.threw THEN "throw"
      ELSE IF ~c.value[1].open THEN "null"
      ELSE "portal"

\* setOpen of the Drawer, called with a boolean (no caller passes an updater),
\* followed by the re-render of DrawerContent.
DrawerSetOpen_Toggle(value) ==
  /\ dUncontrolledOpen' =
       IF dControlledOpen = << >>
       THEN (IF value THEN ~dUncontrolledOpen ELSE FALSE)
       ELSE dUncontrolledOpen
  /\ calls' = IF dHasOnOpenChange THEN <<value>> ELSE << >>
  /\ dView' = DrawerContentRender(DrawerContext(dControlledOpen, dUncontrolledOpen'))

DrawerSetOpen(value) ==
  /\ dUncontrolledOpen' =
       IF dControlledOpen = << >> THEN value ELSE dUncontrolledOpen
  /\ calls' = IF dHasOnOpenChange THEN <<value>> ELSE << >>
  /\ dView' = DrawerContentRender(DrawerContext(dControlledOpen, dUncontrolledOpen'))

DrawerInit ==
  /\ dControlledOpen \in OptBool
  /\ dDefaultOpen \in BOOLEAN
  /\ dHasOnOpenChange \in BOOLEAN
  /\ dUncontrolledOpen = dDefaultOpen
  /\ dLastClick = "none"
  /\ dView = DrawerContentRender(DrawerContext(dControlledOpen, dUncontrolledOpen))

DrawerClick(control, value) ==
  /\ DrawerSetOpen(value)
  /\ dLastClick' = control
  /\ ev' = Event("Drawer", control)
  /\ thrown' = FALSE
  /\ rendered' = NoRender
  /\ UNCHANGED <<dControlledOpen, dDefaultOpen, dHasOnOpenChange>>
  /\ UNCHANGED <<sheetVars, selectVars, ringVars>>

DrawerTriggerClick == DrawerClick("trigger", TRUE)

DrawerCloseClick == DrawerClick("close", FALSE)

\* The backdrop and the X button exist only while DrawerContentInner is rendered.
DrawerBackdropClick ==
  /\ dView = "portal"
  /\ DrawerClick("backdrop", FALSE)

DrawerXClick ==
  /\ dView = "portal"
  /\ DrawerClick("x", FALSE)

\* The parent of a controlled Drawer re-renders it with another open prop.
DrawerParentSetsOpen(value) ==
  /\ dControlledOpen # << >>
  /\ dControlledOpen' = <<value>>
  /\ dView' = DrawerContentRender(DrawerContext(dControlledOpen', dUncontrolledOpen))
  /\ ev' = Event("Drawer", "prop")
  /\ calls' = << >>
  /\ thrown' = FALSE
  /\ rendered' = NoRender
  /\ UNCHANGED <<dDefaultOpen, dHasOnOpenChange, dUncontrolledOpen, dLastClick>>
  /\ UNCHANGED <<sheetVars, selectVars, ringVars>>

DrawerNext ==
  \/ DrawerTriggerClick
  \/ DrawerCloseClick
  \/ DrawerBackdropClick
  \/ DrawerXClick
  \/ \E value \in BOOLEAN : DrawerParentSetsOpen(value)

(***************************************************************************)
(* Sheet                                                                   *)
(***************************************************************************)

SheetContext(controlledOpen, uncontrolledOpen) ==
  LET isControlled == controlledOpen # << >>
  IN  <<[open |-> IF isControlled THEN controlledOpen[1] ELSE uncontrolledOpen]>>

SheetOpen == SheetContext(sControlledOpen, sUncontrolledOpen)[1].open

\* React.useContext(SheetContext) || { open: false, setOpen: () => {} }
SheetUseContext(context) ==
  IF context = << >> THEN [open |-> FALSE] ELSE context[1]

\* Without asChild (the default) SheetTrigger renders its button.
SheetTriggerRender(context) == "button"

SheetCloseRender(context) == "button"

SheetOverlayRender(context) == "overlay"

SheetPortalRender(context) ==
  IF SheetUseContext(context).open THEN "children" ELSE "null"

SheetContentRender_NoMountGate(context, mounted) ==
  IF ~SheetUseContext(context).open THEN "placeholder" ELSE "portal"

SheetContentRender(context, mounted) ==
  IF ~mounted \/ ~SheetUseContext(context).open THEN "placeholder" ELSE "portal"

\* The re-render of the Sheet's consumers after a state or prop change.
SheetCommit ==
  /\ sPortalView' = SheetPortalRender(SheetContext(sControlledOpen', sUncontrolledOpen'))
  /\ sContentView' =
       IF sContentAlive'
       THEN SheetContentRender(SheetContext(sControlledOpen', sUncontrolledOpen'), sMounted')
       ELSE "absent"

\* setOpen of the Sheet, called with a boolean.
SheetSetOpen(value) ==
  /\ sUncontrolledOpen' =
       IF sControlledOpen = << >> THEN value ELSE sUncontrolledOpen
  /\ calls' = IF sHasOnOpenChange THEN <<value>> ELSE << >>

SheetInit ==
  /\ sControlledOpen \in OptBool
  /\ sDefaultOpen \in BOOLEAN
  /\ sHasOnOpenChange \in BOOLEAN
  /\ sUncontrolledOpen = sDefaultOpen
  /\ sContentAlive = TRUE
  /\ sMounted = FALSE
  /\ sPortalView = SheetPortalRender(SheetContext(sControlledOpen, sUncontrolledOpen))
  /\ sContentView = SheetContentRender(SheetContext(sControlledOpen, sUncontrolledOpen), sMounted)

\* React flushes a pending passive effect before it handles another event.
SheetEffectsFlushed == sContentAlive => sMounted

SheetClick(control, value) ==
  /\ SheetEffectsFlushed
  /\ SheetSetOpen(value)
  /\ UNCHANGED <<sControlledOpen, sDefaultOpen, sHasOnOpenChange, sContentAlive, sMounted>>
  /\ SheetCommit
  /\ ev' = Event("Sheet", control)
  /\ thrown' = FALSE
  /\ rendered' = NoRender
  /\ UNCHANGED <<drawerVars, selectVars, ringVars>>

SheetTriggerClick == SheetClick("trigger", TRUE)

SheetCloseClick == SheetClick("close", FALSE)

SheetOverlayClick == SheetClick("overlay", FALSE)

\* The backdrop inside SheetContent calls the local setOpen declared in
\* SheetContent, which throws; the handler changes no state.
SheetContentBackdropClick ==
  /\ SheetEffectsFlushed
  /\ sContentView = "portal"
  /\ ev' = Event("Sheet", "contentBackdrop")
  /\ calls' = << >>
  /\ thrown' = TRUE
  /\ rendered' = NoRender
  /\ UNCHANGED <<sheetVars, drawerVars, selectVars, ringVars>>

\* useEffect(() => setMounted(true), []) and the re-render it causes.
SheetContentMountEffect ==
  /\ sContentAlive
  /\ ~sMounted
  /\ sMounted' = TRUE
  /\ UNCHANGED <<sControlledOpen, sDefaultOpen, sHasOnOpenChange, sUncontrolledOpen,
                 sContentAlive>>
  /\ SheetCommit
  /\ ev' = Event("Sheet", "mountEffect")
  /\ calls' = << >>
  /\ thrown' = FALSE
  /\ rendered' = NoRender
  /\ UNCHANGED <<drawerVars, selectVars, ringVars>>

\* The parent stops rendering SheetContent: its state is discarded.
SheetContentUnmount ==
  /\ SheetEffectsFlushed
  /\ sContentAlive
  /\ sContentAlive' = FALSE
  /\ sMounted' = FALSE
  /\ UNCHANGED <<sControlledOpen, sDefaultOpen, sHasOnOpenChange, sUncontrolledOpen>>
  /\ SheetCommit
  /\ ev' = Event("Sheet", "unmount")
  /\ calls' = << >>
  /\ thrown' = FALSE
  /\ rendered' = NoRender
  /\ UNCHANGED <<drawerVars, selectVars, ringVars>>

\* The parent renders SheetContent again: a new instance, useState(false).
SheetContentMount ==
  /\ ~sContentAlive
  /\ sContentAlive' = TRUE
  /\ sMounted' = FALSE
  /\ UNCHANGED <<sControlledOpen, sDefaultOpen, sHasOnOpenChange, sUncontrolledOpen>>
  /\ SheetCommit
  /\ ev' = Event("Sheet", "mount")
  /\ calls' = << >>
  /\ thrown' = FALSE
  /\ rendered' = NoRender
  /\ UNCHANGED <<drawerVars, selectVars, ringVars>>

SheetParentSetsOpen(value) ==
  /\ SheetEffectsFlushed
  /\ sControlledOpen # << >>
  /\ sControlledOpen' = <<value>>
  /\ UNCHANGED <<sDefaultOpen, sHasOnOpenChange, sUncontrolledOpen, sContentAlive, sMounted>>
  /\ SheetCommit
  /\ ev' = Event("Sheet", "prop")
  /\ calls' = << >>
  /\ thrown' = FALSE
  /\ rendered' = NoRender
  /\ UNCHANGED <<drawerVars, selectVars, ringVars>>

SheetNext ==
  \/ SheetTriggerClick
  \/ SheetCloseClick
  \/ SheetOverlayClick
  \/ SheetContentBackdropClick
  \/ SheetContentMountEffect
  \/ SheetContentUnmount
  \/ SheetContentMount
  \/ \E value \in BOOLEAN : SheetParentSetsOpen(value)

(***************************************************************************)
(* Select                                                                  *)
(***************************************************************************)

Queries == {"", "a", "ab"}

\* The value Select hands to SelectContext.Provider (the fields used here).
SelectContext(isOpen, searchQuery) ==
  <<[open |-> isOpen, searchQuery |-> searchQuery]>>

\* useState(open || defaultOpen): an undefined open is falsy.
SelectInitialIsOpen(open, defaultOpen) ==
  (IF open = << >> THEN FALSE ELSE open[1]) \/ defaultOpen

SelectValueRender(context) ==
  IF context = << >> THEN "throw" ELSE "span"

SelectTriggerRender(context) ==
  IF context = << >> THEN "throw" ELSE "button"

\* What every Select event records: the event and the open state before it.
SelectHistory ==
  /\ selPrevOpen' = <<selPrevOpen[2], selIsOpen>>
  /\ selPrevEv' = ev

\* useEffect(() => { if (!isOpen) setSearchQuery("") }, [isOpen]) after a render
\* in which isOpen changed.
SelectSearchResetEffect ==
  selSearchQuery' =
    IF selIsOpen' # selIsOpen /\ ~selIsOpen' THEN "" ELSE selSearchQuery

\* handleOpenChange, the setOpen of the context, and the effects of the re-render.
handleOpenChange_NoDisabledGuard(newOpen) ==
  /\ selIsOpen' = IF selOpenProp = << >> THEN newOpen ELSE selIsOpen
  /\ calls' = IF selHasOnOpenChange THEN <<newOpen>> ELSE << >>
  /\ SelectSearchResetEffect

handleOpenChange(newOpen) ==
  IF selDisabled
  THEN /\ selIsOpen' = selIsOpen
       /\ calls' = << >>
       /\ selSearchQuery' = selSearchQuery
  ELSE /\ selIsOpen' = IF selOpenProp = << >> THEN newOpen ELSE selIsOpen
       /\ calls' = IF selHasOnOpenChange THEN <<newOpen>> ELSE << >>
       /\ SelectSearchResetEffect

SelectInit ==
  /\ selOpenProp \in OptBool
  /\ selDefaultOpen \in BOOLEAN
  /\ selDisabled \in BOOLEAN
  /\ selHasOnOpenChange \in BOOLEAN
  /\ selIsOpen = SelectInitialIsOpen(selOpenProp, selDefaultOpen)
  /\ selSearchQuery = ""
  /\ selEffectsRun = FALSE
  /\ selPrevOpen = <<selIsOpen, selIsOpen>>
  /\ selPrevEv = Event("none", "mount")

\* A Select rendered with its default props.
SelectIdle ==
  /\ SelectInit
  /\ selOpenProp = << >>
  /\ ~selDefaultOpen
  /\ ~selDisabled
  /\ ~selHasOnOpenChange

\* The effects of the first render: [open] copies a defined prop into isOpen,
\* [isOpen] clears the search query of a closed Select.
SelectMountEffects ==
  /\ ~selEffectsRun
  /\ selEffectsRun' = TRUE
  /\ selIsOpen' = IF selOpenProp # << >> THEN selOpenProp[1] ELSE selIsOpen
  /\ selSearchQuery' = IF ~selIsOpen \/ ~selIsOpen' THEN "" ELSE selSearchQuery
  /\ SelectHistory
  /\ ev' = Event("Select", "mountEffects")
  /\ calls' = << >>
  /\ thrown' = FALSE
  /\ rendered' = NoRender
  /\ UNCHANGED <<selOpenProp, selDefaultOpen, selDisabled, selHasOnOpenChange>>
  /\ UNCHANGED <<drawerVars, sheetVars, ringVars>>

SelectRequest(control, newOpen) ==
  /\ selEffectsRun
  /\ handleOpenChange(newOpen)
  /\ SelectHistory
  /\ ev' = Event("Select", control)
  /\ thrown' = FALSE
  /\ rendered' = NoRender
  /\ UNCHANGED <<selOpenProp, selDefaultOpen, selDisabled, selHasOnOpenChange,
                 selEffectsRun>>
  /\ UNCHANGED <<drawerVars, sheetVars, ringVars>>

\* onClick={() => setOpen(!open)} of the trigger button.
SelectTriggerClick_OpenOnly == SelectRequest("trigger", TRUE)

SelectTriggerClick == SelectRequest("trigger", ~selIsOpen)

\* Any other consumer of the context calling setOpen(newOpen).
SelectSetOpen(newOpen) ==
  SelectRequest(IF newOpen THEN "setOpenTrue" ELSE "setOpenFalse", newOpen)

\* The search input is rendered only while open; its onClick stops propagation,
\* so the button's onClick does not run.
SelectSearchInputClick ==
  /\ selEffectsRun
  /\ selIsOpen
  /\ SelectHistory
  /\ ev' = Event("Select", "searchClick")
  /\ calls' = << >>
  /\ thrown' = FALSE
  /\ rendered' = NoRender
  /\ UNCHANGED <<selOpenProp, selDefaultOpen, selDisabled, selHasOnOpenChange,
                 selIsOpen, selSearchQuery, selEffectsRun>>
  /\ UNCHANGED <<drawerVars, sheetVars, ringVars>>

SelectSearchInputChange(query) ==
  /\ selEffectsRun
  /\ selIsOpen
  /\ selSearchQuery' = query
  /\ SelectHistory
  /\ ev' = Event("Select", "searchChange")
  /\ calls' = << >>
  /\ thrown' = FALSE
  /\ rendered' = NoRender
  /\ UNCHANGED <<selOpenProp, selDefaultOpen, selDisabled, selHasOnOpenChange,
                 selIsOpen, selEffectsRun>>
  /\ UNCHANGED <<drawerVars, sheetVars, ringVars>>

\* The parent of a controlled Select passes another open prop; the [open]
\* effect copies it into isOpen.
SelectParentSetsOpen(value) ==
  /\ selEffectsRun
  /\ selOpenProp # << >>
  /\ selOpenProp' = <<value>>
  /\ selIsOpen' = value
  /\ SelectSearchResetEffect
  /\ SelectHistory
  /\ ev' = Event("Select", "prop")
  /\ calls' = << >>
  /\ thrown' = FALSE
  /\ rendered' = NoRender
  /\ UNCHANGED <<selDefaultOpen, selDisabled, selHasOnOpenChange, selEffectsRun>>
  /\ UNCHANGED <<drawerVars, sheetVars, ringVars>>

SelectParentSetsDisabled(value) ==
  /\ selEffectsRun
  /\ selDisabled' = value
  /\ SelectHistory
  /\ ev' = Event("Select", "disabledProp")
  /\ calls' = << >>
  /\ thrown' = FALSE
  /\ rendered' = NoRender
  /\ UNCHANGED <<selOpenProp, selDefaultOpen, selHasOnOpenChange, selIsOpen,
                 selSearchQuery, selEffectsRun>>
  /\ UNCHANGED <<drawerVars, sheetVars, ringVars>>

SelectNext ==
  \/ SelectMountEffects
  \/ SelectTriggerClick
  \/ \E newOpen \in BOOLEAN : SelectSetOpen(newOpen)
  \/ SelectSearchInputClick
  \/ \E query \in Queries : SelectSearchInputChange(query)
  \/ \E value \in BOOLEAN : SelectParentSetsOpen(value)
  \/ \E value \in BOOLEAN : SelectParentSetsDisabled(value)

(***************************************************************************)
(* ThreeDImageRing                                                         *)
(***************************************************************************)

\* Bounds: the images of the ring, the size of one drag step and the range
\* of the rotations, in half degrees (delta * 0.5).
NumImages == 3

MaxDelta == 1

MaxRotation == 3

\* animate.opacity of an image that is not dimmed, in tenths.
FullOpacity == 10

Images == 0 .. (NumImages - 1)

Deltas == (0 - MaxDelta) .. MaxDelta

InitialRotations == {-1, 0, 2}

HoverOpacities == {0, 3}

InRange(r) == (0 - MaxRotation) <= r /\ r <= MaxRotation

\* animate.opacity of image index.
AnimateOpacity(hovered, index, dimmed) ==
  IF hovered # << >> /\ hovered[1] # index THEN dimmed ELSE FullOpacity

RingRender(hovered) ==
  [index \in Images |-> AnimateOpacity(hovered, index, hoverOpacity)]

handleDrag_NoGuard(dx, dy) ==
  /\ rotationY' = rotationY + dx
  /\ rotationX' = rotationX - dy

handleDrag(dx, dy) ==
  IF ~draggable
  THEN UNCHANGED <<rotationX, rotationY>>
  ELSE /\ rotationY' = rotationY + dx
       /\ rotationX' = rotationX - dy

RingInit ==
  /\ draggable \in BOOLEAN
  /\ initialRotation \in InitialRotations
  /\ hoverOpacity \in HoverOpacities
  /\ rotationX = 0
  /\ rotationY = initialRotation
  /\ hoveredIndex = << >>
  /\ over = {}
  /\ opacity = RingRender(hoveredIndex)

\* A ring rendered with its default props.
RingIdle ==
  /\ RingInit
  /\ draggable
  /\ initialRotation = 0
  /\ hoverOpacity = 3

RingDrag(dx, dy) ==
  /\ InRange(rotationY + dx)
  /\ InRange(rotationX - dy)
  /\ handleDrag(dx, dy)
  /\ ev' = Event("Ring", "drag")
  /\ calls' = << >>
  /\ thrown' = FALSE
  /\ rendered' = NoRender
  /\ UNCHANGED <<draggable, initialRotation, hoverOpacity, hoveredIndex, over, opacity>>
  /\ UNCHANGED <<drawerVars, sheetVars, selectVars>>

\* onHoverStart={() => setHoveredIndex(index)}
RingHoverStart(index) ==
  /\ index \notin over
  /\ hoveredIndex' = <<index>>
  /\ over' = over \cup {index}
  /\ opacity' = RingRender(hoveredIndex')
  /\ ev' = Event("Ring", "hoverStart")
  /\ calls' = << >>
  /\ thrown' = FALSE
  /\ rendered' = NoRender
  /\ UNCHANGED <<draggable, initialRotation, hoverOpacity, rotationX, rotationY>>
  /\ UNCHANGED <<drawerVars, sheetVars, selectVars>>

\* onHoverEnd={() => setHoveredIndex(null)}
RingHoverEnd(index) ==
  /\ index \in over
  /\ hoveredIndex' = << >>
  /\ over' = over \ {index}
  /\ opacity' = RingRender(hoveredIndex')
  /\ ev' = Event("Ring", "hoverEnd")
  /\ calls' = << >>
  /\ thrown' = FALSE
  /\ rendered' = NoRender
  /\ UNCHANGED <<draggable, initialRotation, hoverOpacity, rotationX, rotationY>>
  /\ UNCHANGED <<drawerVars, sheetVars, selectVars>>

RingNext ==
  \/ \E dx \in Deltas, dy \in Deltas : RingDrag(dx, dy)
  \/ \E index \in Images : RingHoverStart(index)
  \/ \E index \in Images : RingHoverEnd(index)

(***************************************************************************)
(* A sub-component rendered on its own, inside or outside its parent       *)
(***************************************************************************)

DrawerComponents == {"DrawerTrigger", "DrawerContent", "DrawerClose"}

SelectComponents == {"SelectValue", "SelectTrigger"}

SheetComponents ==
  {"SheetTrigger", "SheetClose", "SheetPortal", "SheetOverlay", "SheetContent"}

Components == DrawerComponents \cup SelectComponents \cup SheetComponents

\* The context a component finds: its parent's value, or none outside a parent.
ContextOf(comp, inParent) ==
  IF ~inParent THEN << >>
  ELSE IF comp \in DrawerComponents
       THEN DrawerContext(dControlledOpen, dUncontrolledOpen)
  ELSE IF comp \in SelectComponents
       THEN SelectContext(selIsOpen, selSearchQuery)
  ELSE SheetContext(sControlledOpen, sUncontrolledOpen)

\* The first render of a new instance of the component.
RenderComponent(comp, context) ==
  CASE comp = "DrawerTrigger" -> DrawerTriggerRender(context)
    [] comp = "DrawerContent" -> DrawerContentRender(context)
    [] comp = "DrawerClose"   -> DrawerCloseRender(context)
    [] comp = "SelectValue"   -> SelectValueRender(context)
    [] comp = "SelectTrigger" -> SelectTriggerRender(context)
    [] comp = "SheetTrigger"  -> SheetTriggerRender(context)
    [] comp = "SheetClose"    -> SheetCloseRender(context)
    [] comp = "SheetPortal"   -> SheetPortalRender(context)
    [] comp = "SheetOverlay"  -> SheetOverlayRender(context)
    [] comp = "SheetContent"  -> SheetContentRender(context, FALSE)

RenderStandalone(comp, inParent) ==
  /\ rendered' = [comp |-> comp, inParent |-> inParent,
                  out |-> RenderComponent(comp, ContextOf(comp, inParent))]
  /\ thrown' = (rendered'.out = "throw")
  /\ ev' = Event("render", comp)
  /\ calls' = << >>
  /\ UNCHANGED <<drawerVars, sheetVars, selectVars, ringVars>>

RenderNext ==
  \E comp \in Components, inParent \in BOOLEAN : RenderStandalone(comp, inParent)

(***************************************************************************)
(* Specifications                                                          *)
(***************************************************************************)

SharedInit ==
  /\ ev = Event("none", "mount")
  /\ calls = << >>
  /\ thrown = FALSE
  /\ rendered = NoRender

DrawerIdle ==
  /\ DrawerInit
  /\ dControlledOpen = << >>
  /\ ~dDefaultOpen
  /\ ~dHasOnOpenChange

SheetIdle ==
  /\ SheetInit
  /\ sControlledOpen = << >>
  /\ ~sDefaultOpen
  /\ ~sHasOnOpenChange

\* Drawer and Sheet, and the stand-alone renders of every sub-component.
Init == SharedInit /\ DrawerInit /\ SheetInit /\ SelectIdle /\ RingIdle

Next == DrawerNext \/ SheetNext \/ RenderNext

Spec == Init /\ [][Next]_vars

InitSelect == SharedInit /\ DrawerIdle /\ SheetIdle /\ SelectInit /\ RingIdle

SpecSelect == InitSelect /\ [][SelectNext]_vars

InitRing == SharedInit /\ DrawerIdle /\ SheetIdle /\ SelectIdle /\ RingInit

SpecRing == InitRing /\ [][RingNext]_vars

(***************************************************************************)
(* Properties                                                              *)
(***************************************************************************)

RenderedOutsideParent == rendered.comp # "none" /\ ~rendered.inParent

\* C1 (as stated): every sub-component that reads a widget context throws when
\* it is rendered outside its required parent.
C1_EverySubComponentThrowsOutsideParent ==
  RenderedOutsideParent => (rendered.out = "throw" /\ thrown)

\* C1 (amended): outside their parent the Drawer and Select sub-components
\* throw; the Sheet sub-components do not throw but fall back to a closed
\* context with a no-op setOpen: SheetTrigger, SheetClose and SheetOverlay
\* render their element, SheetPortal renders nothing and SheetContent renders
\* only its hidden placeholder.
C1_DrawerSelectThrowSheetFallsBack ==
  RenderedOutsideParent =>
    /\ rendered.comp \in DrawerComponents \cup SelectComponents =>
         (rendered.out = "throw" /\ thrown)
    /\ rendered.comp \in {"SheetTrigger", "SheetClose"} =>
         (rendered.out = "button" /\ ~thrown)
    /\ rendered.comp = "SheetOverlay" => (rendered.out = "overlay" /\ ~thrown)
    /\ rendered.comp = "SheetPortal" => (rendered.out = "null" /\ ~thrown)
    /\ rendered.comp = "SheetContent" => (rendered.out = "placeholder" /\ ~thrown)

C1_Witness ==
  /\ RenderedOutsideParent
  /\ rendered.comp = "DrawerContent"
  /\ rendered.out = "throw"
  /\ DrawerOpen

\* C2: the open state of an uncontrolled Drawer is defaultOpen while nothing
\* was clicked, true when the last click was on the trigger and false when it
\* was on DrawerClose, the backdrop or the X button.
C2_UncontrolledDrawerFollowsLastClick ==
  dControlledOpen = << >> =>
    DrawerOpen = (CASE dLastClick = "none" -> dDefaultOpen
                    [] dLastClick = "trigger" -> TRUE
                    [] dLastClick \in {"close", "backdrop", "x"} -> FALSE)

C2_Witness ==
  /\ dControlledOpen = << >>
  /\ dDefaultOpen
  /\ dLastClick = "trigger"
  /\ ev = Event("Drawer", "trigger")
  /\ DrawerOpen

\* C3: DrawerContent renders its portal exactly when the Drawer is open and
\* nothing when it is closed; SheetPortal renders its children exactly when the
\* Sheet is open and nothing otherwise.
C3_ContentRenderedIffOpen ==
  /\ dView = (IF DrawerOpen THEN "portal" ELSE "null")
  /\ sPortalView = (IF SheetOpen THEN "children" ELSE "null")

C3_Witness ==
  /\ ev = Event("Drawer", "trigger")
  /\ DrawerOpen
  /\ dView = "portal"
  /\ ~SheetOpen
  /\ sPortalView = "null"

C4_PanelIffMountedAndOpen ==
  sContentAlive =>
    sContentView = (IF sMounted /\ SheetOpen THEN "portal" ELSE "placeholder")

C4_MountedStaysTrue ==
  (sContentAlive /\ sContentAlive' /\ sMounted) => sMounted'

\* C4: SheetContent renders the panel into the portal exactly when mounted is
\* true and the Sheet is open, and only the hidden placeholder in every other
\* state; mounted never returns to false while the component stays mounted.
C4_SheetContentPortal ==
  /\ []C4_PanelIffMountedAndOpen
  /\ [][C4_MountedStaysTrue]_vars

\* The mount effect of a Sheet with defaultOpen = true has just run: the render
\* before it showed the placeholder, this one shows the panel.
C4_Witness ==
  /\ sControlledOpen = << >>
  /\ sDefaultOpen
  /\ ev = Event("Sheet", "mountEffect")
  /\ sMounted
  /\ sContentView = "portal"

DrawerClickControls == {"trigger", "close", "backdrop", "x"}

SheetClickControls == {"trigger", "close", "overlay", "contentBackdrop"}

\* C5: a controlled Drawer or Sheet shows the open prop in every render, and a
\* click on its trigger or on one of its closing controls calls onOpenChange
\* (when supplied) with the requested value and nothing else.
C5_ControlledClickOnlyNotifies ==
  /\ dControlledOpen # << >> =>
       /\ DrawerOpen = dControlledOpen[1]
       /\ dView = (IF dControlledOpen[1] THEN "portal" ELSE "null")
       /\ (ev.widget = "Drawer" /\ ev.control \in DrawerClickControls /\ dHasOnOpenChange)
            => (calls = <<ev.control = "trigger">> /\ ~thrown)
  /\ sControlledOpen # << >> =>
       /\ SheetOpen = sControlledOpen[1]
       /\ sPortalView = (IF sControlledOpen[1] THEN "children" ELSE "null")
       /\ (ev.widget = "Sheet" /\ ev.control \in SheetClickControls /\ sHasOnOpenChange)
            => (calls = <<ev.control = "trigger">> /\ ~thrown)

\* C6: with draggable = false no drag event moves the ring.
C6_NotDraggableKeepsRotation ==
  ~draggable => (rotationY = initialRotation /\ rotationX = 0)

C6_Witness ==
  /\ ~draggable
  /\ ev = Event("Ring", "drag")
  /\ initialRotation = 2
  /\ rotationY = 2

\* C7: while exactly one image is hovered it is shown at full opacity and every
\* other image at hoverOpacity; while none is hovered all are at full opacity.
C7_HoveredImageFullOthersDimmed ==
  /\ over = {} => \A index \in Images : opacity[index] = FullOpacity
  /\ \A index \in Images :
       over = {index} =>
         /\ opacity[index] = FullOpacity
         /\ \A other \in Images \ {index} : opacity[other] = hoverOpacity

SelectRequestControls == {"trigger", "setOpenTrue", "setOpenFalse"}

\* C8: in an uncontrolled, enabled Select every trigger click flips the open
\* state, two consecutive trigger clicks restore it, and a click on the search
\* input leaves it as it was.
C8_TriggerClickFlips ==
  /\ (ev = Event("Select", "trigger") /\ selOpenProp = << >> /\ ~selDisabled) =>
       /\ selIsOpen = ~selPrevOpen[2]
       /\ selPrevEv = Event("Select", "trigger") => selIsOpen = selPrevOpen[1]
  /\ ev = Event("Select", "searchClick") => selIsOpen = selPrevOpen[2]

C8_Witness ==
  /\ ev = Event("Select", "trigger")
  /\ selPrevEv = Event("Select", "trigger")
  /\ selOpenProp = << >>
  /\ ~selDisabled
  /\ selIsOpen
  /\ selPrevOpen = <<TRUE, FALSE>>

\* C9: while the Select is disabled a request to open or close it leaves the
\* open state as it was and calls no onOpenChange.
C9_DisabledIgnoresRequests ==
  (selDisabled /\ ev.widget = "Select" /\ ev.control \in SelectRequestControls) =>
    (selIsOpen = selPrevOpen[2] /\ calls = << >>)

C9_Witness ==
  /\ selDisabled
  /\ ev = Event("Select", "setOpenTrue")
  /\ selHasOnOpenChange
  /\ selOpenProp = << >>
  /\ ~selIsOpen

====
